---- MODULE Spec2Model ----
(***************************************************************************)
(* A model of the pdf-service: the /upload-pdf handler of src/index.js and *)
(* of its test-mode variant src/unnamed/part_000, the template renderer    *)
(* replaceTemplate and the section pruner evaluated in the page.           *)
(*                                                                         *)
(* Strings are sequences of one-character strings, so that split, trim and *)
(* the regular expressions are computed character by character.            *)
(***************************************************************************)
EXTENDS Integers, Sequences, FiniteSets, TLC

(***************************************************************************)
(* Bounds of the model.                                                    *)
(***************************************************************************)
\* concurrent /upload-pdf requests
NumRequests == 2
\* longest enumerated value of a list-formatted field, in characters
MaxValLen == 5
\* most whitespace characters enumerated on each side of a token's name
MaxWs == 2
\* longest enumerated string of a gating field of the pruner
MaxFieldLen == 2

(***************************************************************************)
(* JavaScript values: undefined, null, strings and numbers.                *)
(***************************************************************************)
Undefined == [t |-> "undefined", s |-> <<>>, n |-> 0]
Null == [t |-> "null", s |-> <<>>, n |-> 0]
Str(s) == [t |-> "string", s |-> s, n |-> 0]
Num(n) == [t |-> "number", s |-> <<>>, n |-> n]

\* the characters String.prototype.trim and the regex class \s remove
IsSpace(c) == c \in {" ", "\n", "\t", "\r"}

\* the regex class \w
WordChars ==
  {"a", "b", "c", "d", "e", "f", "g", "h", "i", "j", "k", "l", "m", "n", "o", "p",
   "q", "r", "s", "t", "u", "v", "w", "x", "y", "z", "A", "L", "M", "C", "T", "V",
   "0", "1", "2", "3", "4", "5", "6", "7", "8", "9", "_"}
IsWord(c) == c \in WordChars

\* a sequence of characters as one TLA+ string (to index a field map)
RECURSIVE Join(_)
Join(s) == IF s = <<>> THEN "" ELSE Head(s) \o Join(Tail(s))

\* all sequences over S of length at most n
RECURSIVE SeqsUpTo(_, _)
SeqsUpTo(S, n) ==
  IF n = 0 THEN {<<>>}
  ELSE LET shorter == SeqsUpTo(S, n - 1)
       IN shorter \cup {Append(q, c) : q \in {p \in shorter : Len(p) = n - 1}, c \in S}

\* String.prototype.trim
RECURSIVE TrimLeft(_)
TrimLeft(s) == IF s # <<>> /\ IsSpace(Head(s)) THEN TrimLeft(Tail(s)) ELSE s
RECURSIVE TrimRight(_)
TrimRight(s) ==
  IF s # <<>> /\ IsSpace(s[Len(s)]) THEN TrimRight(SubSeq(s, 1, Len(s) - 1)) ELSE s
Trim(s) == TrimRight(TrimLeft(s))

\* String.prototype.split on a one-character separator
RECURSIVE SplitFrom(_, _, _)
SplitFrom(s, sep, cur) ==
  IF s = <<>> THEN <<cur>>
  ELSE IF Head(s) = sep THEN <<cur>> \o SplitFrom(Tail(s), sep, <<>>)
  ELSE SplitFrom(Tail(s), sep, Append(cur, Head(s)))
Split(s, sep) == SplitFrom(s, sep, <<>>)

\* the decimal digits of a natural number
Digit(d) == CASE d = 0 -> "0" [] d = 1 -> "1" [] d = 2 -> "2" [] d = 3 -> "3"
              [] d = 4 -> "4" [] d = 5 -> "5" [] d = 6 -> "6" [] d = 7 -> "7"
              [] d = 8 -> "8" [] OTHER -> "9"
RECURSIVE Digits(_)
Digits(n) == IF n < 10 THEN <<Digit(n)>> ELSE Append(Digits(n \div 10), Digit(n % 10))

\* String(value)
StringOf(v) ==
  CASE v.t = "string" -> v.s
    [] v.t = "number" -> Digits(v.n)
    [] v.t = "null" -> <<"n", "u", "l", "l">>
    [] OTHER -> <<"u", "n", "d", "e", "f", "i", "n", "e", "d">>

\* !value
Falsy(v) ==
  \/ v.t \in {"undefined", "null"}
  \/ v.t = "string" /\ v.s = <<>>
  \/ v.t = "number" /\ v.n = 0

(***************************************************************************)
(* replaceTemplate                                                         *)
(***************************************************************************)
listFields ==
  {"interests", "webinars", "team", "position", "trips", "tasks", "leadershipAcademy"}

\* data[key]: a field the map does not hold reads as undefined
Lookup(data, key) == IF Join(key) \in DOMAIN data THEN data[Join(key)] ELSE Undefined

\* the end of the longest run of characters of a class starting at i
RECURSIVE SkipWhile(_, _, _)
SkipWhile(s, i, isSpace) ==
  IF i <= Len(s) /\ (IF isSpace THEN IsSpace(s[i]) ELSE IsWord(s[i]))
  THEN SkipWhile(s, i + 1, isSpace) ELSE i

\* /{{\s*(\w+)\s*}}/ tried at position i: the match's key and the position
\* after it, or no match
MatchAt(s, i) ==
  LET a == i + 2
      b == SkipWhile(s, a, TRUE)
      c == SkipWhile(s, b, FALSE)
      d == SkipWhile(s, c, TRUE)
  IN IF /\ i + 1 <= Len(s) /\ s[i] = "{" /\ s[i + 1] = "{"
        /\ c > b
        /\ d + 1 <= Len(s) /\ s[d] = "}" /\ s[d + 1] = "}"
     THEN [ok |-> TRUE, key |-> SubSeq(s, b, c - 1), next |-> d + 2]
     ELSE [ok |-> FALSE, key |-> <<>>, next |-> i + 1]

\* the token a missing field is replaced by: `{{${key}}}`
MissingToken(key) == <<"{", "{">> \o key \o <<"}", "}">>


\* a marker pattern without its blank, /^-/
ListItemDash(line) ==
  Trim(IF Len(line) >= 1 /\ line[1] = "-" THEN SubSeq(line, 2, Len(line)) ELSE line)

\* line.replace(/^- /, "").trim()
ListItem(line) ==
  Trim(IF Len(line) >= 2 /\ line[1] = "-" /\ line[2] = " "
       THEN SubSeq(line, 3, Len(line)) ELSE line)

\* String(value).split("\n").map(trim).filter(nonempty)
RECURSIVE TrimmedNonEmpty(_)
TrimmedNonEmpty(ls) ==
  IF ls = <<>> THEN <<>>
  ELSE LET l == Trim(Head(ls))
       IN (IF l = <<>> THEN <<>> ELSE <<l>>) \o TrimmedNonEmpty(Tail(ls))
ListLines(value) == TrimmedNonEmpty(Split(StringOf(value), "\n"))

RECURSIVE ListItems(_)
ListItems(lines) ==
  IF lines = <<>> THEN <<>>
  ELSE <<"<", "l", "i", ">">> \o ListItem(Head(lines)) \o <<"<", "/", "l", "i", ">">>
         \o ListItems(Tail(lines))

\* the list branch of the replacer
FormatList(value) ==
  LET lines == ListLines(value)
  IN IF Len(lines) = 1
     THEN <<"<", "p", ">">> \o lines[1] \o <<"<", "/", "p", ">">>
     ELSE <<"<", "u", "l", ">">> \o ListItems(lines) \o <<"<", "/", "u", "l", ">">>

\* String(value).replace(/\n/g, "<br>")
RECURSIVE BreakLines(_)
BreakLines(s) ==
  IF s = <<>> THEN <<>>
  ELSE (IF Head(s) = "\n" THEN <<"<", "b", "r", ">">> ELSE <<Head(s)>>)
         \o BreakLines(Tail(s))

\* the replacer callback (_, key) => ...
Replacer(key, data) ==
  LET value == Lookup(data, key)
  IN IF value = Undefined THEN MissingToken(key)
     ELSE IF Join(key) \in listFields THEN FormatList(value)
     ELSE BreakLines(StringOf(value))

\* template.replace(regex /g, replacer), scanning from position i
RECURSIVE ReplaceFrom(_, _, _)
ReplaceFrom(template, data, i) ==
  IF i > Len(template) THEN <<>>
  ELSE LET m == MatchAt(template, i)
       IN IF m.ok THEN Replacer(m.key, data) \o ReplaceFrom(template, data, m.next)
          ELSE <<template[i]>> \o ReplaceFrom(template, data, i + 1)

replaceTemplate(template, data) == ReplaceFrom(template, data, 1)

(***************************************************************************)
(* formatDate                                                              *)
(***************************************************************************)
\* the i-th element of a destructured array, as a template literal prints it
PartText(parts, i) ==
  IF i <= Len(parts) THEN parts[i] ELSE <<"u", "n", "d", "e", "f", "i", "n", "e", "d">>

\* formatDate(isoDate): a falsy date gives "", a string is split on "-", and
\* any other value has no split method (a TypeError)
formatDate(isoDate) ==
  IF Falsy(isoDate) THEN [ok |-> TRUE, value |-> Str(<<>>)]
  ELSE IF isoDate.t # "string" THEN [ok |-> FALSE, value |-> Undefined]
  ELSE LET parts == Split(isoDate.s, "-")
       IN [ok |-> TRUE,
           value |-> Str(PartText(parts, 3) \o <<" ", "/", " ">> \o PartText(parts, 2)
                           \o <<" ", "/", " ">> \o PartText(parts, 1))]

(***************************************************************************)
(* The section pruner: the function page.evaluate runs in the document.    *)
(* A document is the set of the element ids (and tags) it holds.           *)
(***************************************************************************)
\* the source variants: part_000 has the test mode and the story rule
Variants == {"part_000", "index"}
HasStoryRule(v) == v = "part_000"
HasTestMode(v) == v = "part_000"

\* `!value || value.trim() === ''`: a truthy value that is no string has no
\* trim method, and the evaluation throws a TypeError
GateThrows(value) == ~Falsy(value) /\ value.t # "string"
GateEmpty(value) == Falsy(value) \/ (value.t = "string" /\ Trim(value.s) = <<>>)

\* one `if (gate) remove the elements` statement, run on the state the
\* statements before it left
RemoveIfEmpty(st, value, ids) ==
  IF ~st.ok THEN st
  ELSE IF GateThrows(value) THEN [ok |-> FALSE, doc |-> st.doc]
  ELSE IF GateEmpty(value) THEN [ok |-> TRUE, doc |-> st.doc \ ids]
  ELSE st

teamElements == {"team", "position", "team-break-line", "feadback"}

\* the elements the callbacks look for
FullDoc ==
  {"academy", "story", "story-link", "chart-container", "canvas"} \cup teamElements

previousData(data) ==
  <<data["previousMonths"], data["previousCourses"], data["previousTrips"],
    data["previousVolunteering"], data["previousTasks"]>>


\* a chart rule that tests the previous-period fields as the other rules
\* test theirs, by falsiness: a numeric 0 counts as empty
hasFalsyPreviousData(data) ==
  \E i \in 1..5 : GateEmpty(previousData(data)[i])

hasEmptyPreviousData(data) ==
  \E i \in 1..5 :
    LET value == previousData(data)[i]
    IN \/ value = Undefined
       \/ value = Null
       \/ value.t = "string" /\ Trim(value.s) = <<>>

RemoveChart(st, data) ==
  IF st.ok /\ hasEmptyPreviousData(data)
  THEN [ok |-> TRUE, doc |-> st.doc \ {"chart-container"}]
  ELSE st

RemoveAcademy(st, data) == RemoveIfEmpty(st, data["leadershipAcademy"], {"academy"})
RemoveStory(st, data, v) ==
  IF HasStoryRule(v) THEN RemoveIfEmpty(st, data["storyText"], {"story"}) ELSE st
RemoveTeam(st, data) == RemoveIfEmpty(st, data["team"], teamElements)
RemoveStoryLink(st, data) == RemoveIfEmpty(st, data["storyLink"], {"story-link"})

\* the whole callback: ok is FALSE when it threw, and doc is the document it
\* left behind
PruneSections(doc, data, v) ==
  RemoveChart(
    RemoveStoryLink(
      RemoveTeam(
        RemoveStory(
          RemoveAcademy([ok |-> TRUE, doc |-> doc], data), data, v), data), data), data)

\* the second callback: every canvas is replaced by an image
RasterizeCanvases(doc) ==
  IF "canvas" \in doc THEN (doc \ {"canvas"}) \cup {"img"} ELSE doc

(***************************************************************************)
(* State                                                                   *)
(***************************************************************************)
VARIABLES
  TEST_MODE,       \* process.env.TEST_MODE === 'true' (part_000 only)
  variant,         \* which of the two source files is deployed
  tokensFile,      \* tokens.json: "absent", "valid" or "corrupt" (no JSON)
  templateExists,  \* whether template.html exists in the working directory
  tokens,          \* the module-level token cache: "null" or "valid"
  pc,              \* per request: the awaited call in flight, "idle" or "done"
  body,            \* per request: req.body
  html,            \* per request: processedHtml
  doc,             \* per request: the document loaded in its page
  browser,         \* the `browser` variable of each handler invocation
  page,            \* per request: the surface its `page` belongs to
  response,        \* per request: the response written
  lateSend,        \* per request: res.json was called after the response was written
  rejected,        \* per request: the handler's promise rejected (uncaught exception)
  closing,         \* per request: the surface whose close() it awaits
  pdfHeight,       \* per request: the height of the page.pdf call in flight, in nm
  trace,           \* per request: the steps completed, in order (history)
  surface,         \* per request: the states of the surfaces it launched
  uses,            \* history: who operated on a page of which surface
  closes,          \* history: who called close on which surface
  call             \* the pure function call under check (function specifications)

envVars == <<TEST_MODE, variant, tokensFile, templateExists, tokens>>
reqVars ==
  <<pc, body, html, doc, browser, page, response, lateSend, rejected, closing,
    pdfHeight, trace>>
surfaceVars == <<surface, uses, closes>>
vars == <<envVars, reqVars, surfaceVars, call>>

Requests == 1..NumRequests

\* a surface is named by the request that launched it and its rank among
\* the surfaces of that request
NoSurface == [req |-> 0, k |-> 0]
StateOf(s) == surface[s.req][s.k]

NoResponse == [status |-> 0, payload |-> "none"]
NoCall == [op |-> "none"]

\* the fields of templateData the model follows
Fields ==
  {"name", "team", "tasks", "position", "feadback", "leadershipAcademy", "storyText",
   "storyLink", "previousMonths", "previousCourses", "previousTrips",
   "previousVolunteering", "previousTasks", "date"}
NoFields == [f \in Fields |-> Undefined]

\* a field map that differs from base in the fields of delta
With(base, delta) ==
  [f \in DOMAIN base |-> IF f \in DOMAIN delta THEN delta[f] ELSE base[f]]

Chars(str) ==
  CASE str = "team" -> <<"t", "e", "a", "m">>
    [] str = "name" -> <<"n", "a", "m", "e">>
    [] str = "tasks" -> <<"t", "a", "s", "k", "s">>
    [] str = "Ana" -> <<"A", "n", "a">>
    [] str = "solo" -> <<"s", "o", "l", "o">>
    [] str = "{{" -> <<"{", "{">>
    [] str = "}}" -> <<"}", "}">>
    [] str = "{{name}}" -> <<"{", "{", "n", "a", "m", "e", "}", "}">>
    [] str = "2024-03-07" -> <<"2", "0", "2", "4", "-", "0", "3", "-", "0", "7">>
    [] OTHER -> <<str>>

\* the state of the requests and surfaces before any request arrived
RequestsIdle ==
  /\ pc = [r \in Requests |-> "idle"]
  /\ body = [r \in Requests |-> NoFields]
  /\ html = [r \in Requests |-> <<>>]
  /\ doc = [r \in Requests |-> {}]
  /\ browser = [r \in Requests |-> NoSurface]
  /\ page = [r \in Requests |-> NoSurface]
  /\ response = [r \in Requests |-> NoResponse]
  /\ lateSend = [r \in Requests |-> FALSE]
  /\ rejected = [r \in Requests |-> FALSE]
  /\ closing = [r \in Requests |-> NoSurface]
  /\ pdfHeight = [r \in Requests |-> 0]
  /\ trace = [r \in Requests |-> <<>>]
  /\ surface = [r \in Requests |-> <<>>]
  /\ uses = {}
  /\ closes = {}

(***************************************************************************)
(* The /upload-pdf handler.  Each action is one synchronous stretch of the *)
(* handler: from the settling of the call it awaited to the next await (or *)
(* to its end), with the catch and finally blocks it runs through.         *)
(***************************************************************************)
\* the content of template.html, and the elements it declares
htmlTemplate ==
  Chars("{{name}}") \o <<"#">> \o Chars("{{") \o <<" ">> \o Chars("team") \o <<" ">>
    \o Chars("}}")
templateElements == FullDoc

\* the request bodies drawn: the minimal one, a complete one, and complete
\* ones whose team or whose date is a number
BodyAna == With(NoFields, [name |-> Str(Chars("Ana"))])
BodyFull ==
  With([f \in Fields |-> Str(<<"0">>)],
       [name |-> Str(Chars("Ana")), date |-> Str(Chars("2024-03-07"))])
Bodies ==
  {BodyAna, BodyFull, With(BodyFull, [team |-> Num(5)]), With(BodyFull, [date |-> Num(5)])}

\* document.body.scrollHeight, in pixels
BodyHeights == {1000, 2000}
\* Math.max(297, bodyHeight * 0.264583) millimetres, in nanometres
heightInMM(bodyHeight) ==
  IF bodyHeight * 264583 > 297 * 1000000 THEN bodyHeight * 264583 ELSE 297 * 1000000

\* the test mode is on (index.js has none)
TestModeOn == HasTestMode(variant) /\ TEST_MODE

\* the object the handler passes to replaceTemplate and to the pruner
templateData(b) == With(b, [date |-> formatDate(b["date"]).value])


\* a `browser` variable declared at module level: one for all requests
SharedBrowserRef(r) == 1

\* `let browser` is a variable of the handler invocation: each request has
\* its own
BrowserRef(r) == r

Success == [status |-> 200, payload |-> "success"]
\* the answer of the framework's default error handler, where the framework
\* forwards a rejected handler to it (Express 5; Express 4 does not answer)
FrameworkError == [status |-> 500, payload |-> "html"]
Error(status) == [status |-> status, payload |-> "error"]

\* res.status(..).json(..): written if no response was written before;
\* otherwise nothing is written and the call throws
Send(r, resp) ==
  IF response[r] = NoResponse
  THEN /\ response' = [response EXCEPT ![r] = resp]
       /\ lateSend' = lateSend
  ELSE /\ response' = response
       /\ lateSend' = [lateSend EXCEPT ![r] = TRUE]

\* the try block is left: its constants (templateData, processedHtml, page)
\* are not read again
LeaveTry(r) ==
  /\ body' = [body EXCEPT ![r] = NoFields]
  /\ html' = [html EXCEPT ![r] = <<>>]
  /\ doc' = [doc EXCEPT ![r] = {}]
  /\ page' = [page EXCEPT ![r] = NoSurface]
  /\ pdfHeight' = [pdfHeight EXCEPT ![r] = 0]

\* finally { if (browser) await browser.close(); }
Finally(r) ==
  LET b == browser[BrowserRef(r)]
  IN /\ IF b # NoSurface
        THEN /\ pc' = [pc EXCEPT ![r] = "close"]
             /\ closing' = [closing EXCEPT ![r] = b]
             /\ closes' = closes \cup {[by |-> r, on |-> b]}
        ELSE /\ pc' = [pc EXCEPT ![r] = "done"]
             /\ UNCHANGED <<closing, closes>>
     /\ LeaveTry(r)

\* an operation on the page of request r can succeed only while the surface
\* of the page is open
PageOpen(r) == page[r] # NoSurface /\ StateOf(page[r]) = "open"


\* a handler without the finally block: a failure answers 500 and returns
FailNoClose(r) ==
  /\ Send(r, Error(500))
  /\ pc' = [pc EXCEPT ![r] = "done"]
  /\ LeaveTry(r)
  /\ UNCHANGED <<closing, closes, browser, trace, surface, uses>>

\* an awaited call of the try block rejected (or a statement threw): the
\* inner catch block answers 500, then the finally block runs
Fail(r) ==
  /\ Send(r, Error(500))
  /\ Finally(r)
  /\ UNCHANGED <<browser, trace, surface, uses>>

\* an awaited page operation succeeded and the next call was made: the step
\* is logged, with the document and the pdf height it leaves
Ok(r, next, step, newDoc, newHeight) ==
  /\ PageOpen(r)
  /\ uses' = uses \cup {[by |-> r, on |-> page[r]]}
  /\ pc' = [pc EXCEPT ![r] = next]
  /\ trace' = [trace EXCEPT ![r] = Append(@, step)]
  /\ doc' = [doc EXCEPT ![r] = newDoc]
  /\ pdfHeight' = [pdfHeight EXCEPT ![r] = newHeight]
  /\ UNCHANGED <<body, html, browser, page, response, lateSend, closing, surface, closes>>

\* the output was persisted: the success response is sent and the finally
\* block runs
Succeed(r, steps) ==
  /\ Send(r, Success)
  /\ Finally(r)
  /\ trace' = [trace EXCEPT ![r] = @ \o steps]
  /\ UNCHANGED <<browser, surface>>

\* lines 127-174: authentication, the template check, formatDate,
\* replaceTemplate, and the call of puppeteer.launch.  A tokens.json that does
\* not parse throws outside the try blocks: the handler's promise rejects
Begin(r) ==
  /\ pc[r] = "idle"
  /\ \E b \in Bodies, readOk \in BOOLEAN, forwarded \in BOOLEAN :
       LET load == ~TestModeOn /\ tokens = "null" /\ tokensFile # "absent"
           loaded == IF load /\ tokensFile = "valid" THEN "valid" ELSE tokens
           date == formatDate(b["date"])
           outcome ==
             IF load /\ tokensFile = "corrupt" THEN "throw"
             ELSE IF ~TestModeOn /\ loaded = "null" THEN "401"
             ELSE IF ~templateExists THEN "400"
             ELSE IF ~readOk \/ ~date.ok THEN "500"
             ELSE "launch"
       IN /\ tokens' = IF outcome = "throw" THEN tokens ELSE loaded
          /\ pc' = [pc EXCEPT ![r] = IF outcome = "launch" THEN "launch" ELSE "done"]
          /\ rejected' = [rejected EXCEPT ![r] = outcome = "throw"]
          /\ response' =
               [response EXCEPT ![r] =
                  CASE outcome = "401" -> Error(401)
                    [] outcome = "400" -> Error(400)
                    [] outcome = "500" -> Error(500)
                    [] outcome = "throw" /\ forwarded -> FrameworkError
                    [] OTHER -> NoResponse]
          /\ body' = [body EXCEPT ![r] = IF outcome = "launch" THEN b ELSE NoFields]
          /\ html' = [html EXCEPT ![r] =
                        IF outcome = "launch"
                        THEN replaceTemplate(htmlTemplate, templateData(b)) ELSE <<>>]
          /\ trace' = [trace EXCEPT ![r] =
                         IF outcome = "launch" THEN <<"render">> ELSE <<>>]
  /\ UNCHANGED <<TEST_MODE, variant, tokensFile, templateExists, doc, browser, page,
                 lateSend, closing, pdfHeight, surfaceVars, call>>

\* line 174-175: puppeteer.launch settles; on success browser is assigned
\* and browser.newPage is called on it
LaunchDone(r) ==
  /\ pc[r] = "launch"
  /\ \/ LET s == [req |-> r, k |-> Len(surface[r]) + 1]
        IN /\ surface' = [surface EXCEPT ![r] = Append(@, "open")]
           /\ uses' = uses \cup {[by |-> r, on |-> s]}
           /\ closes' = closes
           /\ browser' = [browser EXCEPT ![BrowserRef(r)] = s]
           /\ page' = [page EXCEPT ![r] = s]
           /\ pc' = [pc EXCEPT ![r] = "newPage"]
           /\ trace' = [trace EXCEPT ![r] = Append(@, "open")]
           /\ UNCHANGED <<body, html, doc, response, lateSend, closing, pdfHeight>>
     \/ Fail(r)
  /\ UNCHANGED <<envVars, rejected, call>>

\* line 175-176: browser.newPage settles; page.setContent is called
NewPageDone(r) ==
  /\ pc[r] = "newPage"
  /\ \/ Ok(r, "setContent", "page", doc[r], 0)
     \/ Fail(r)
  /\ UNCHANGED <<envVars, rejected, call>>

\* a handler without the settling delay: the pruner is evaluated as soon as
\* the content is loaded
SetContentDoneNoSettle(r) ==
  /\ pc[r] = "setContent"
  /\ \/ Ok(r, "prune", "load", templateElements, 0)
     \/ Fail(r)
  /\ UNCHANGED <<envVars, rejected, call>>

\* line 176-177: page.setContent settles, or times out; the timer is set
SetContentDone(r) ==
  /\ pc[r] = "setContent"
  /\ \/ Ok(r, "settle", "load", templateElements, 0)
     \/ Fail(r)
  /\ UNCHANGED <<envVars, rejected, call>>

\* line 177-180: the timer fires; the pruner is passed to page.evaluate
SettleDone(r) ==
  /\ pc[r] = "settle"
  /\ pc' = [pc EXCEPT ![r] = "prune"]
  /\ trace' = [trace EXCEPT ![r] = Append(@, "settle")]
  /\ UNCHANGED <<envVars, body, html, doc, browser, page, response, lateSend, rejected,
                 closing, pdfHeight, surfaceVars, call>>

\* line 180-237: the pruner ran in the page; if it threw, or the page failed,
\* page.evaluate rejects; otherwise the rasterizer is passed to page.evaluate
PruneDone(r) ==
  /\ pc[r] = "prune"
  /\ LET res == PruneSections(doc[r], templateData(body[r]), variant)
     IN \/ res.ok /\ Ok(r, "rasterize", "prune", res.doc, 0)
        \/ Fail(r)
  /\ UNCHANGED <<envVars, rejected, call>>

\* line 237-248: the rasterizer ran; scrollHeight is asked for
RasterizeDone(r) ==
  /\ pc[r] = "rasterize"
  /\ \/ Ok(r, "measure", "rasterize", RasterizeCanvases(doc[r]), 0)
     \/ Fail(r)
  /\ UNCHANGED <<envVars, rejected, call>>

\* line 248-255: scrollHeight arrives; page.pdf is called with the height
MeasureDone(r) ==
  /\ pc[r] = "measure"
  /\ \/ \E bodyHeight \in BodyHeights :
          Ok(r, "pdf", "measure", doc[r], heightInMM(bodyHeight))
     \/ Fail(r)
  /\ UNCHANGED <<envVars, rejected, call>>

\* line 250-300: page.pdf settles.  In test mode the file is written and the
\* success response sent at once (or the write throws), and the finally
\* block calls close; otherwise drive.files.create is called
PdfDone(r) ==
  /\ pc[r] = "pdf"
  /\ \/ /\ ~TestModeOn
        /\ Ok(r, "upload", "pdf", doc[r], 0)
     \/ /\ TestModeOn
        /\ PageOpen(r)
        /\ uses' = uses \cup {[by |-> r, on |-> page[r]]}
        /\ \/ Succeed(r, <<"pdf", "persist", "respond">>)
           \/ /\ Send(r, Error(500))
              /\ Finally(r)
              /\ trace' = [trace EXCEPT ![r] = Append(@, "pdf")]
              /\ UNCHANGED <<browser, surface>>
     \/ Fail(r)
  /\ UNCHANGED <<envVars, rejected, call>>

\* line 282-300: drive.files.create settles; the success response is sent,
\* or the catch block answers 500; the finally block calls close
UploadDone(r) ==
  /\ pc[r] = "upload"
  /\ \/ Succeed(r, <<"persist", "respond">>) /\ UNCHANGED uses
     \/ Fail(r)
  /\ UNCHANGED <<envVars, rejected, call>>

\* line 299-304: browser.close settles.  If it rejects, the outer catch
\* block calls res.status(500).json after a response was written: that call
\* throws, and the handler's promise rejects
CloseDone(r) ==
  /\ pc[r] = "close"
  /\ \/ /\ surface' = [surface EXCEPT ![closing[r].req][closing[r].k] = "closed"]
        /\ trace' = [trace EXCEPT ![r] = Append(@, "release")]
        /\ UNCHANGED <<response, lateSend, rejected>>
     \/ /\ surface' = [surface EXCEPT ![closing[r].req][closing[r].k] =
                         IF @ = "closed" THEN @ ELSE "closeFailed"]
        /\ Send(r, Error(500))
        /\ rejected' = [rejected EXCEPT ![r] = response[r] # NoResponse]
        /\ UNCHANGED trace
  /\ pc' = [pc EXCEPT ![r] = "done"]
  /\ closing' = [closing EXCEPT ![r] = NoSurface]
  /\ UNCHANGED <<envVars, body, html, doc, browser, page, pdfHeight, uses, closes, call>>

\* GET /oauth/callback with a code the token endpoint accepts: the tokens are
\* written to tokens.json and cached
OAuthCallback ==
  /\ ~TestModeOn
  /\ tokens' = "valid"
  /\ tokensFile' = "valid"
  /\ UNCHANGED <<TEST_MODE, variant, templateExists, reqVars, surfaceVars, call>>

\* the module is loaded: tokens.json is read if it exists, and a file that
\* does not parse is logged and leaves tokens null
Init ==
  /\ variant \in Variants
  /\ TEST_MODE \in (IF HasTestMode(variant) THEN BOOLEAN ELSE {FALSE})
  /\ tokensFile \in {"absent", "valid", "corrupt"}
  /\ templateExists \in BOOLEAN
  /\ tokens = IF tokensFile = "valid" THEN "valid" ELSE "null"
  /\ RequestsIdle
  /\ call = NoCall

Next ==
  \/ \E r \in Requests :
       \/ Begin(r)
       \/ LaunchDone(r)
       \/ NewPageDone(r)
       \/ SetContentDone(r)
       \/ SettleDone(r)
       \/ PruneDone(r)
       \/ RasterizeDone(r)
       \/ MeasureDone(r)
       \/ PdfDone(r)
       \/ UploadDone(r)
       \/ CloseDone(r)
  \/ OAuthCallback

Spec == Init /\ [][Next]_vars

(***************************************************************************)
(* replaceTemplate as a function: the inputs are drawn, the call applies   *)
(* it.                                                                     *)
(***************************************************************************)
Whitespace == SeqsUpTo({" ", "\n"}, MaxWs)

\* templates around one token or near-token: text, braces, whitespace, a name
TokenTemplates ==
  {pre \o open \o ws1 \o key \o ws2 \o close \o post :
     pre \in {<<>>, <<"#">>, <<"{">>},
     open \in {Chars("{{"), <<"{">>},
     ws1 \in Whitespace,
     key \in {Chars("team"), Chars("name"), <<>>},
     ws2 \in Whitespace,
     close \in {Chars("}}"), <<"}">>},
     post \in {<<>>, <<"}">>, Chars("{{name}}")}}

TokenData ==
  {With(NoFields, [team |-> t, name |-> n]) :
     t \in {Undefined, Str(<<"a", "\n", "-", " ", "b">>)},
     n \in {Undefined, Str(<<"x", "\n", "y">>)}}

\* values of a list-formatted field: every short string of lines, markers
\* and blanks, the examples of the specification, and values that are no string
ListValues ==
  {Str(v) : v \in SeqsUpTo({"a", "-", " ", "\n"}, MaxValLen)}
    \cup {Str(<<"a", "\n", "-", " ", "b", "\n", " ", "\n", "c">>), Str(Chars("solo")),
          Null, Num(0), Num(12)}

\* the list-formatted fields whose values are drawn, and the templates that
\* hold one token naming such a field
DrawnListFields == {"team", "tasks"}
ValueTemplates(f) ==
  {Chars("{{") \o Chars(f) \o Chars("}}"),
   <<"#">> \o Chars("{{") \o <<" ">> \o Chars(f) \o Chars("}}")}

InitTemplate ==
  /\ TEST_MODE = FALSE /\ variant = "part_000" /\ tokensFile = "absent"
  /\ templateExists = TRUE /\ tokens = "null"
  /\ RequestsIdle
  /\ \/ \E t \in TokenTemplates, d \in TokenData :
          call = [op |-> "replaceTemplate", template |-> t, data |-> d,
                  done |-> FALSE, out |-> <<>>]
     \/ \E f \in DrawnListFields, v \in ListValues :
          \E t \in ValueTemplates(f) :
            call = [op |-> "replaceTemplate", template |-> t,
                    data |-> [g \in Fields |-> IF g = f THEN v ELSE Undefined],
                    done |-> FALSE, out |-> <<>>]

CallReplaceTemplate ==
  /\ call.op = "replaceTemplate" /\ ~call.done
  /\ call' = [call EXCEPT !.done = TRUE,
                          !.out = replaceTemplate(call.template, call.data)]
  /\ UNCHANGED <<envVars, reqVars, surfaceVars>>

SpecTemplate == InitTemplate /\ [][CallReplaceTemplate]_vars

(***************************************************************************)
(* The pruner as a function: a document and a field map are drawn, the     *)
(* call applies the callback.                                              *)
(***************************************************************************)
\* the documents drawn: every subset of the team cluster present, each
\* other element missing in turn, and the empty document
Docs ==
  {FullDoc \ missing : missing \in SUBSET teamElements}
    \cup {FullDoc \ {e} : e \in FullDoc} \cup {{}}

\* values of a gating field: absent, null, numbers, and every short string of
\* blanks and zeros
GateValues ==
  {Undefined, Null, Num(0), Num(5)}
    \cup {Str(v) : v \in SeqsUpTo({" ", "0"}, MaxFieldLen)}
FewGateValues == {Undefined, Str(<<"0">>), Num(0), Num(5)}
PreviousValues ==
  {Undefined, Null, Num(0), Str(<<>>), Str(<<" ", " ", " ">>), Str(<<"0">>)}
AllPrevious(v) ==
  [previousMonths |-> v, previousCourses |-> v, previousTrips |-> v,
   previousVolunteering |-> v, previousTasks |-> v]

GateFields == {"leadershipAcademy", "storyText", "team", "storyLink"}

\* the field maps drawn: the four gating fields over the few values or one
\* gating field over all values; and the five previous-period fields varied
GateData ==
  {With(With(NoFields, AllPrevious(Str(<<"0">>))),
        [leadershipAcademy |-> a, storyText |-> s, team |-> t, storyLink |-> l,
         position |-> p, feadback |-> f]) :
     a \in FewGateValues, s \in FewGateValues, t \in FewGateValues,
     l \in FewGateValues, p \in {Undefined, Str(<<"0">>)}, f \in {Undefined, Str(<<"0">>)}}
  \cup
  {[f \in Fields |-> IF f = g THEN v
                     ELSE IF f = "date" THEN Undefined ELSE Str(<<"0">>)] :
     g \in GateFields, v \in GateValues}

PreviousData ==
  {With([f \in Fields |-> Str(<<"0">>)],
        [previousMonths |-> m, previousCourses |-> c, previousTrips |-> t,
         previousVolunteering |-> v, previousTasks |-> k]) :
     m \in PreviousValues, c \in PreviousValues, t \in PreviousValues,
     v \in PreviousValues, k \in PreviousValues}

InitPrune ==
  /\ TEST_MODE = FALSE /\ tokensFile = "absent"
  /\ templateExists = TRUE /\ tokens = "null"
  /\ variant \in Variants
  /\ RequestsIdle
  /\ \/ \E d \in Docs, data \in GateData :
          call = [op |-> "prune", doc |-> d, data |-> data, done |-> FALSE,
                  ok |-> TRUE, out |-> {}]
     \/ \E d \in {FullDoc, FullDoc \ {"chart-container"}}, data \in PreviousData :
          call = [op |-> "prune", doc |-> d, data |-> data, done |-> FALSE,
                  ok |-> TRUE, out |-> {}]

CallPruneSections ==
  /\ call.op = "prune" /\ ~call.done
  /\ LET res == PruneSections(call.doc, call.data, variant)
     IN call' = [call EXCEPT !.done = TRUE, !.ok = res.ok, !.out = res.doc]
  /\ UNCHANGED <<envVars, reqVars, surfaceVars>>

SpecPrune == InitPrune /\ [][CallPruneSections]_vars

(***************************************************************************)
(* Claims about replaceTemplate (under SpecTemplate)                       *)
(***************************************************************************)
Rendered == call.op = "replaceTemplate" /\ call.done

\* C5: a token whose field is absent from the map appears in the output as
\* the original token text, character for character, whitespace included, and
\* the text outside tokens is unchanged: with no field present the output is
\* the template itself.
C5_MissingTokenVerbatim ==
  (Rendered /\ \A f \in Fields : call.data[f] = Undefined)
    => call.out = call.template

(***************************************************************************)
(* C6, stated on the positions of the value's characters.                  *)
(***************************************************************************)
Markup(name) == <<"<">> \o name \o <<">">>
SetMin(S) == CHOOSE x \in S : \A y \in S : x <= y
SetMax(S) == CHOOSE x \in S : \A y \in S : x >= y
RECURSIVE Ascending(_)
Ascending(S) == IF S = {} THEN <<>> ELSE <<SetMin(S)>> \o Ascending(S \ {SetMin(S)})

\* where the lines of text start, and where the line starting at a ends
LineStarts(text) == {1} \cup {i + 1 : i \in {j \in 1..Len(text) : text[j] = "\n"}}
LineEnd(text, a) ==
  SetMin({j \in a..Len(text) : text[j] = "\n"} \cup {Len(text) + 1}) - 1
\* the positions of the line starting at a that hold no blank
Ink(text, a) == {i \in a..LineEnd(text, a) : text[i] \notin {" ", "\t", "\r"}}
KeptLines(text) ==
  LET starts == Ascending({a \in LineStarts(text) : Ink(text, a) # {}})
  IN [k \in 1..Len(starts) |->
        SubSeq(text, SetMin(Ink(text, starts[k])), SetMax(Ink(text, starts[k])))]
\* a line without one leading "- ", and without the blanks that followed it
Unmarked(line) ==
  IF Len(line) >= 2 /\ SubSeq(line, 1, 2) = <<"-", " ">>
  THEN SubSeq(line, SetMin({i \in 3..Len(line) : line[i] \notin {" ", "\t", "\r"}}), Len(line))
  ELSE line
RECURSIVE Items(_)
Items(lines) ==
  IF lines = <<>> THEN <<>>
  ELSE Markup(<<"l", "i">>) \o Unmarked(Head(lines)) \o Markup(<<"/", "l", "i">>)
         \o Items(Tail(lines))
C6_Expected(value) ==
  LET lines == KeptLines(StringOf(value))
  IN IF Len(lines) = 1 THEN Markup(<<"p">>) \o lines[1] \o Markup(<<"/", "p">>)
     ELSE Markup(<<"u", "l">>) \o Items(lines) \o Markup(<<"/", "u", "l">>)

\* the text of a value template before its token
BeforeToken(template) == SubSeq(template, 1, SetMin({i \in 1..Len(template) : template[i] = "{"}) - 1)

\* C6: a token naming a list-formatted field with a present value is
\* replaced by <p>LINE</p> for exactly one non-blank trimmed line (its "- "
\* kept), by <ul> with one <li> per line in order, each without one leading
\* "- " and trimmed again, for two or more, and by <ul></ul> for none.
C6_ListFormatting ==
  \A f \in DrawnListFields :
    (Rendered /\ call.template \in ValueTemplates(f) /\ call.data[f] # Undefined)
      => call.out = BeforeToken(call.template) \o C6_Expected(call.data[f])

\* a value of two marked lines is rendered as a list of two unmarked items
C6_Witness ==
  /\ Rendered /\ call.template \in ValueTemplates("tasks")
  /\ call.data["tasks"] = Str(<<"-", " ", "a", "\n", "-">>)
  /\ call.out = BeforeToken(call.template)
       \o <<"<", "u", "l", ">", "<", "l", "i", ">", "a", "<", "/", "l", "i", ">",
            "<", "l", "i", ">", "-", "<", "/", "l", "i", ">", "<", "/", "u", "l", ">">>

(***************************************************************************)
(* Claims about the pruner (under SpecPrune)                               *)
(***************************************************************************)
Pruned == call.op = "prune" /\ call.done

\* the blank test of the specification: absent, null, or trimming to the
\* empty string after coercion to a string
Blank(value) ==
  \/ value = Undefined
  \/ value = Null
  \/ \A i \in 1..Len(StringOf(value)) : StringOf(value)[i] \in {" ", "\n", "\t", "\r"}

\* C7: each single-field section is removed exactly when its gating value is
\* blank (so a numeric zero or "0" keeps it), and a value that is no string
\* does not make the prune step fail.
C7_SingleFieldSections ==
  Pruned =>
    /\ call.ok
    /\ "academy" \in call.out
         <=> ("academy" \in call.doc /\ ~Blank(call.data["leadershipAcademy"]))
    /\ HasStoryRule(variant) =>
         ("story" \in call.out <=> ("story" \in call.doc /\ ~Blank(call.data["storyText"])))
    /\ "team" \in call.out <=> ("team" \in call.doc /\ ~Blank(call.data["team"]))
    /\ "story-link" \in call.out
         <=> ("story-link" \in call.doc /\ ~Blank(call.data["storyLink"]))

\* C8: after pruning, the chart container is present exactly when (it was in
\* the document and) all five previous-period fields are non-blank: "0" and
\* 0 keep it; undefined, null or an all-whitespace string removes it.
C8_Blank(value) ==
  \/ value.t \in {"undefined", "null"}
  \/ value.t = "string" /\ \A i \in 1..Len(value.s) : value.s[i] \in {" ", "\n", "\t", "\r"}
C8_ChartContainer ==
  (Pruned /\ call.ok) =>
    ("chart-container" \in call.out
       <=> /\ "chart-container" \in call.doc
           /\ \A f \in DOMAIN AllPrevious(Null) : ~C8_Blank(call.data[f]))

\* all five fields hold zeros, as strings and as numbers, and the chart stays
C8_Witness ==
  /\ Pruned /\ call.ok
  /\ call.data["previousMonths"] = Num(0)
  /\ \A f \in DOMAIN AllPrevious(Null) \ {"previousMonths"} : call.data[f] = Str(<<"0">>)
  /\ "chart-container" \in call.out

\* C9: when team is blank none of the four team-cluster elements is left,
\* whichever of them existed; when team is non-blank the rule removes none.
C9_TeamCluster ==
  (Pruned /\ call.ok) =>
    /\ Blank(call.data["team"]) => call.out \cap teamElements = {}
    /\ ~Blank(call.data["team"]) => call.out \cap teamElements = call.doc \cap teamElements

(***************************************************************************)
(* Claims about the handler (under Spec)                                   *)
(***************************************************************************)
Ended(r) == pc[r] = "done"

\* C1: once a request has launched its surface, the surface is closed on
\* every exit path: no request ends with a surface of its own still open
\* (close was called on it and settled; "closeFailed" marks a close call
\* that itself rejected).
C1_SurfaceReleased ==
  \A r \in Requests :
    Ended(r) =>
      \A k \in 1..Len(surface[r]) :
        /\ surface[r][k] # "open"
        /\ [by |-> r, on |-> [req |-> r, k |-> k]] \in closes

\* a request whose storage step failed has ended with its surface closed
C1_Witness ==
  \E r \in Requests :
    /\ Ended(r)
    /\ response[r] = Error(500)
    /\ trace[r] = <<"render", "open", "page", "load", "settle", "prune", "rasterize",
                    "measure", "pdf", "release">>
    /\ surface[r] = <<"closed">>

\* the steps of a request in the order of the code, and in the order the
\* specification gives them (release before persist)
CodeOrder ==
  <<"render", "open", "load", "settle", "prune", "rasterize", "measure", "pdf",
    "persist", "respond", "release">>
SpecOrder ==
  <<"render", "open", "load", "settle", "prune", "rasterize", "measure", "pdf",
    "release", "persist", "respond">>
Range(q) == {q[i] : i \in 1..Len(q)}
IsStep(x) == x \in Range(CodeOrder)
StepsOf(r) == SelectSeq(trace[r], IsStep)
IsPrefix(p, q) == Len(p) <= Len(q) /\ p = SubSeq(q, 1, Len(p))
\* the steps a request may have completed under an order: a prefix of the
\* order, or (when a step failed) a prefix of its steps before the release,
\* followed by the release
Follows(steps, order) ==
  LET last == Len(steps)
      n == CHOOSE i \in 1..Len(order) : order[i] = "release"
  IN \/ IsPrefix(steps, order)
     \/ /\ last > 0 /\ steps[last] = "release"
        /\ IsPrefix(SubSeq(steps, 1, last - 1), SubSeq(order, 1, n - 1))

\* C2 as stated: every request runs its steps in the order render, open,
\* load, settle, prune, rasterize, measure, pdf, release, persist, with the
\* surface released before the output is persisted and the response sent.
C2_ReleaseBeforePersist == \A r \in Requests : Follows(StepsOf(r), SpecOrder)

\* C2 as amended: every request runs its steps in the order render, open,
\* load, settle, prune, rasterize, measure, pdf, persist, respond, release:
\* the surface is released after the output is persisted and the response
\* sent (after a failed step: right after the error response).
C2_StepOrder == \A r \in Requests : Follows(StepsOf(r), CodeOrder)

\* a request has run through all its steps
C2_Witness == \E r \in Requests : Ended(r) /\ StepsOf(r) = CodeOrder

\* C3: every failure of a request is answered with a non-2xx response
\* carrying an error, no request that ended is left unanswered, and a
\* success payload is sent only after the output was persisted.
C3_FailuresReported ==
  \A r \in Requests :
    Ended(r) =>
      /\ response[r] # NoResponse
      /\ ("respond" \notin Range(trace[r]) \/ rejected[r])
           => (response[r].status >= 400 /\ response[r].payload = "error")
      /\ response[r].payload = "success" => "persist" \in Range(trace[r])

\* C4: when template.html is absent the request ends with a 4xx response,
\* and no surface was opened and no step (rendering included) ran.
C4_MissingTemplate ==
  \A r \in Requests :
    (Ended(r) /\ ~templateExists) =>
      /\ response[r].status \in 400..499
      /\ surface[r] = <<>>
      /\ trace[r] = <<>>

\* C10: each request launches at most one surface, operates only on pages
\* of the surface it launched and calls close only on that surface.
C10_SurfacePerRequest ==
  /\ \A r \in Requests : Len(surface[r]) <= 1
  /\ \A u \in uses : u.on.req = u.by
  /\ \A c \in closes : c.on.req = c.by

\* one request has ended and closed its surface while another one is still
\* working on its own open surface
C10_Witness ==
  \E r1, r2 \in Requests :
    /\ r1 # r2
    /\ Ended(r1) /\ surface[r1] = <<"closed">>
    /\ pc[r2] \in {"prune", "rasterize", "measure", "pdf"}
    /\ surface[r2] = <<"open">> /\ page[r2] = [req |-> r2, k |-> 1]

\* C11: the handler sends at most one response per request on every path:
\* no request calls res.status(..).json(..) after its response was written,
\* the paths on which browser.close() rejects in the finally block and the
\* outer catch block is entered included.
C11_AtMostOneResponse == \A r \in Requests : ~lateSend[r]

====
